---- MODULE Spec2Model ----
(***************************************************************************)
(* A model of the two programs of eihigh/ei:                               *)
(*                                                                         *)
(*   - the accessor generator (package main): generator.generate,          *)
(*     generator.printAccessors, generator.qualifier and main;             *)
(*   - the entity sweeper (package ei): Entity.Kill, Entity.Alive, Sweep.  *)
(*                                                                         *)
(* Go strings that the program inspects (tags, names, import paths,        *)
(* import statements) are sequences of one-character strings ("runes"),    *)
(* so that Split, TrimSpace, path.Base and sort.Strings are computed       *)
(* character by character.  Text that is only written to a buffer is a     *)
(* line: a TLA+ string obtained from its runes with Text.                  *)
(***************************************************************************)
EXTENDS Integers, Sequences, FiniteSets, TLC

VARIABLES
    fields,         \* the field descriptors of the loaded package, in scan order
    idx,            \* position of the scan loop of generate in fields
    pc,             \* position of main: "scan", "generated", "done", "fatal"
    accessors,      \* g.accessors: the body buffer, a sequence of printed lines
    header,         \* g.header: the header buffer, a sequence of printed lines
    pkgNames,       \* g.pkgNames: import path -> short name
    pkgNameCounts,  \* g.pkgNameCounts: declared name -> number of uses
    written,        \* whether os.WriteFile has written the output file
    run,            \* which invocation of the program this is (1 or 2)
    prev,           \* the buffers of the previous invocation
    xs,             \* the slice handed to Sweep
    dead,           \* Entity.dead of every entity
    old,            \* the slice as it was when Sweep was last called
    op              \* the last operation on the entities

genVars == <<fields, idx, pc, accessors, header, pkgNames, pkgNameCounts,
             written, run, prev>>
eiVars == <<xs, dead, old, op>>
vars == <<fields, idx, pc, accessors, header, pkgNames, pkgNameCounts,
          written, run, prev, xs, dead, old, op>>

(***************************************************************************)
(* Bounds of the model.                                                    *)
(***************************************************************************)
MaxFields == 3
MaxTokens == 3
MaxLen == 4
NumEntities == 3

(***************************************************************************)
(* Runes and strings.                                                      *)
(***************************************************************************)
\* Printable ASCII from space (32) to underscore (95), and from a (97) to ~ (126).
AsciiLo ==
    <<" ", "!", "\"", "#", "$", "%", "&", "'", "(", ")", "*", "+", ",", "-",
      ".", "/", "0", "1", "2", "3", "4", "5", "6", "7", "8", "9", ":", ";",
      "<", "=", ">", "?", "@", "A", "B", "C", "D", "E", "F", "G", "H", "I",
      "J", "K", "L", "M", "N", "O", "P", "Q", "R", "S", "T", "U", "V", "W",
      "X", "Y", "Z", "[", "\\", "]", "^", "_">>

AsciiHi ==
    <<"a", "b", "c", "d", "e",
      "f", "g", "h", "i", "j", "k", "l", "m", "n", "o", "p", "q", "r", "s",
      "t", "u", "v", "w", "x", "y", "z", "{", "|", "}", "~">>

\* The byte value of a rune: the order sort.Strings compares by.
Code(c) ==
    IF c = "\t" THEN 9
    ELSE IF c = "\n" THEN 10
    ELSE IF c = "\r" THEN 13
    ELSE IF \E i \in 1..Len(AsciiLo) : AsciiLo[i] = c
         THEN 31 + (CHOOSE i \in 1..Len(AsciiLo) : AsciiLo[i] = c)
    ELSE 96 + (CHOOSE i \in 1..Len(AsciiHi) : AsciiHi[i] = c)

Lower == SubSeq(AsciiHi, 1, 26)
Upper == SubSeq(AsciiLo, 34, 59)
Digits == SubSeq(AsciiLo, 17, 26)

RECURSIVE Text(_)
Text(s) == IF s = <<>> THEN "" ELSE Head(s) \o Text(Tail(s))

\* a < b as Go compares strings: bytewise, a proper prefix first.
StrLess(a, b) ==
    \E k \in 1..(Len(b)) :
        /\ k <= Len(a) + 1
        /\ \A i \in 1..(k - 1) : a[i] = b[i]
        /\ \/ k = Len(a) + 1
           \/ k <= Len(a) /\ Code(a[k]) < Code(b[k])

Contains(s, c) == \E i \in 1..Len(s) : s[i] = c

IsSpace(c) == c \in {" ", "\t", "\n", "\r"}

\* strings.TrimSpace
RECURSIVE TrimLeft(_)
TrimLeft(s) ==
    IF s /= <<>> /\ IsSpace(Head(s)) THEN TrimLeft(Tail(s)) ELSE s

RECURSIVE TrimRight(_)
TrimRight(s) ==
    IF s /= <<>> /\ IsSpace(s[Len(s)])
    THEN TrimRight(SubSeq(s, 1, Len(s) - 1))
    ELSE s

TrimSpace(s) == TrimRight(TrimLeft(s))

\* strings.Split(s, ","): always at least one element.
RECURSIVE Split(_)
Split(s) ==
    IF ~Contains(s, ",") THEN <<s>>
    ELSE LET i == CHOOSE k \in 1..Len(s) :
                      s[k] = "," /\ \A m \in 1..(k - 1) : s[m] /= ","
         IN  <<SubSeq(s, 1, i - 1)>> \o Split(SubSeq(s, i + 1, Len(s)))

\* strconv.Itoa for n >= 0
RECURSIVE Itoa(_)
Itoa(n) ==
    IF n < 10 THEN <<Digits[n + 1]>>
    ELSE Itoa(n \div 10) \o <<Digits[(n % 10) + 1]>>

\* strconv.Quote on printable ASCII: quotes added, quote and backslash escaped.
RECURSIVE QuoteBody(_)
QuoteBody(s) ==
    IF s = <<>> THEN <<>>
    ELSE (IF Head(s) \in {"\"", "\\"} THEN <<"\\", Head(s)>> ELSE <<Head(s)>>)
         \o QuoteBody(Tail(s))

Quote(s) == <<"\"">> \o QuoteBody(s) \o <<"\"">>

\* path.Base: trailing slashes dropped, then the part after the last slash.
RECURSIVE StripSlashes(_)
StripSlashes(s) ==
    IF s /= <<>> /\ s[Len(s)] = "/"
    THEN StripSlashes(SubSeq(s, 1, Len(s) - 1))
    ELSE s

PathBase(p) ==
    IF p = <<>> THEN <<".">>
    ELSE LET s == StripSlashes(p)
         IN  IF s = <<>> THEN <<"/">>
             ELSE IF ~Contains(s, "/") THEN s
             ELSE LET i == CHOOSE k \in 1..Len(s) :
                               s[k] = "/" /\ \A m \in (k + 1)..Len(s) : s[m] /= "/"
                  IN  SubSeq(s, i + 1, Len(s))

\* sort.Strings, as an insertion sort.
RECURSIVE Insert(_, _)
Insert(x, s) ==
    IF s = <<>> THEN <<x>>
    ELSE IF StrLess(Head(s), x) THEN <<Head(s)>> \o Insert(x, Tail(s))
    ELSE <<x>> \o s

RECURSIVE InsertionSort(_)
InsertionSort(s) ==
    IF s = <<>> THEN <<>> ELSE Insert(Head(s), InsertionSort(Tail(s)))

Unsorted(s) == s

SortStrings(s) == InsertionSort(s)

(***************************************************************************)
(* The inputs of the generator: packages, types and field descriptors.     *)
(***************************************************************************)
get == <<"g", "e", "t">>
Get == <<"G", "e", "t">>
set == <<"s", "e", "t">>
Set == <<"S", "e", "t">>
Foo == <<"F", "o", "o">>
Bar == <<"B", "a", "r">>
util == <<"u", "t", "i", "l">>

\* A *types.Package: its import path and its declared name.
Package(path, name) == [path |-> path, name |-> name]

\* g.pkg.Types, the package being generated for.
LocalPkg == Package(<<"x", ".", "y", "/", "a", "p", "p">>, <<"a", "p", "p">>)
\* The universe scope: predeclared types belong to no package.
NoPkg == Package(<<>>, <<>>)

UtilA == Package(<<"a", "/">> \o util, util)
UtilB == Package(<<"b", ".", "c", "/">> \o util, util)
Util1 == Package(<<"d", "/">> \o util \o <<"1">>, util \o <<"1">>)
YamlV2 == Package(<<"e", ".", "f", "/", "v", "2">>, <<"y", "m", "l">>)

\* A type expression is the sequence of pieces types.TypeString writes for it:
\* literal text, or a named type of some package.
Lit(text) == [kind |-> "lit", pkg |-> NoPkg, text |-> text]
Named(pkg, name) == [kind |-> "named", pkg |-> pkg, text |-> name]

Widget == <<Named(LocalPkg, <<"W", "i", "d", "g", "e", "t">>)>>
NamedT(pkg) == <<Named(pkg, <<"T">>)>>
MapType(k, v) ==
    <<Lit(<<"m", "a", "p", "[">>), Named(k, <<"K">>), Lit(<<"]">>), Named(v, <<"V">>)>>

\* The packages a type names.
TypePkgs(typ) == {typ[i].pkg : i \in {k \in 1..Len(typ) : typ[k].kind = "named"}}

\* A field's tag literal: absent (f.tag == nil), or its key/value pairs.
NoTag == [present |-> FALSE, pairs |-> <<>>]
Tag(key, value) == [present |-> TRUE, pairs |-> <<[key |-> key, value |-> value]>>]
AccessorTag(value) == Tag("accessor", value)

User == [name |-> <<"U", "s", "e", "r">>, params |-> <<>>]
Box == [name |-> <<"B", "o", "x">>, params |-> <<<<"T">>>>]

\* The structField handed to printAccessors.
StructField(owner, name, typ, tag) ==
    [typeSpecName |-> owner.name, typeSpecTypeParams |-> owner.params,
     name |-> name, typ |-> typ, tag |-> tag]

\* strings.Join(tokens, ",")
RECURSIVE Join(_)
Join(toks) ==
    IF Len(toks) = 1 THEN toks[1]
    ELSE toks[1] \o <<",">> \o Join(Tail(toks))

RECURSIVE SeqsUpTo(_, _)
SeqsUpTo(S, n) ==
    IF n = 0 THEN {<<>>}
    ELSE LET shorter == SeqsUpTo(S, n - 1)
         IN  shorter \cup {Append(q, e) : q \in shorter, e \in S}

Tokens == {get, Get, set, Set, Foo, Bar, <<>>, <<" ">> \o set}

\* Every tag value of one to MaxTokens tokens.
TagValues == {Join(toks) : toks \in SeqsUpTo(Tokens, MaxTokens) \ {<<>>}}

FieldName == <<"N", "a", "m", "e">>
fieldName == <<"n", "a", "m", "e">>

\* One field, any tag: the inputs of the tag grammar.
TagFields ==
    {StructField(sh[1], sh[2], sh[3], tag) :
        sh \in {<<User, FieldName, Widget>>, <<User, fieldName, NamedT(UtilA)>>,
                <<Box, FieldName, NamedT(UtilB)>>},
        tag \in {AccessorTag(v) : v \in TagValues}
                \cup {NoTag, Tag("json", get), AccessorTag(<<" ">>)}}

\* Several fields of foreign types: the inputs of the import registry.
ImportFields ==
    {StructField(User, FieldName, typ, AccessorTag(v)) :
        typ \in {Widget, NamedT(UtilA), NamedT(UtilB), NamedT(Util1),
                 NamedT(YamlV2), MapType(YamlV2, UtilA)},
        v \in {Join(<<get, set>>), Foo}}

(***************************************************************************)
(* generator.qualifier                                                     *)
(***************************************************************************)
\* A Go map read: the zero value for a missing key.
Count(counts, name) == IF name \in DOMAIN counts THEN counts[name] ELSE 0

Put(m, k, v) == [x \in DOMAIN m \cup {k} |-> IF x = k THEN v ELSE m[x]]

\* The registry after the call, and the name returned.
qualifier_Reassign(pkg, names, counts) ==
    IF pkg = LocalPkg
    THEN [name |-> <<>>, pkgNames |-> names, pkgNameCounts |-> counts]
    ELSE LET count == Count(counts, pkg.name)
             name == IF count > 0 THEN pkg.name \o Itoa(count) ELSE pkg.name
         IN  [name |-> name,
              pkgNames |-> Put(names, pkg.path, name),
              pkgNameCounts |-> Put(counts, pkg.name, count + 1)]

qualifier(pkg, names, counts) ==
    IF pkg = LocalPkg
    THEN [name |-> <<>>, pkgNames |-> names, pkgNameCounts |-> counts]
    ELSE IF pkg.path \in DOMAIN names
    THEN [name |-> names[pkg.path], pkgNames |-> names, pkgNameCounts |-> counts]
    ELSE LET count == Count(counts, pkg.name)
             name == IF count > 0 THEN pkg.name \o Itoa(count) ELSE pkg.name
         IN  [name |-> name,
              pkgNames |-> Put(names, pkg.path, name),
              pkgNameCounts |-> Put(counts, pkg.name, count + 1)]

\* types.TypeString(typ, g.qualifier): the pieces left to right, the qualifier
\* called once for every named type, its result and a dot written when not empty.
RECURSIVE TypeString(_, _, _)
TypeString(typ, names, counts) ==
    IF typ = <<>>
    THEN [text |-> <<>>, pkgNames |-> names, pkgNameCounts |-> counts]
    ELSE LET piece == Head(typ)
         IN  IF piece.kind = "lit"
             THEN LET rest == TypeString(Tail(typ), names, counts)
                  IN  [rest EXCEPT !.text = piece.text \o @]
             ELSE LET q == qualifier(piece.pkg, names, counts)
                      rest == TypeString(Tail(typ), q.pkgNames, q.pkgNameCounts)
                      text == IF q.name = <<>> THEN piece.text
                              ELSE q.name \o <<".">> \o piece.text
                  IN  [rest EXCEPT !.text = text \o @]

(***************************************************************************)
(* generator.printAccessors                                                *)
(***************************************************************************)
\* reflect.StructTag(tag).Get(key): the value of the key, or "".
StructTagGet(tag, key) ==
    LET pairs == tag.pairs
    IN  IF \E i \in 1..Len(pairs) : pairs[i].key = key
        THEN pairs[CHOOSE i \in 1..Len(pairs) :
                       pairs[i].key = key
                       /\ \A j \in 1..(i - 1) : pairs[j].key /= key].value
        ELSE <<>>

\* The trimmed value of the accessor key.
TagText(f) == TrimSpace(StructTagGet(f.tag, "accessor"))

TagArgs(f) == Split(TagText(f))

\* Whether printAccessors returns before printing anything.
Skipped(f) == ~f.tag.present \/ TagText(f) = <<>>

RECURSIVE JoinParams(_)
JoinParams(params) ==
    IF params = <<>> THEN <<>>
    ELSE Head(params) \o <<",">> \o JoinParams(Tail(params))

Receiver(f) ==
    IF f.typeSpecTypeParams = <<>> THEN f.typeSpecName
    ELSE f.typeSpecName \o <<"[">> \o JoinParams(f.typeSpecTypeParams) \o <<"]">>

IsMarker(arg) == arg \in {get, set, Get, Set}

\* The loop over the arguments that picks the explicit method name: the name,
\* and whether log.Fatal was called.
RECURSIVE MethodLoop(_, _)
MethodLoop(args, method) ==
    IF args = <<>> THEN [fatal |-> FALSE, method |-> method]
    ELSE IF IsMarker(Head(args)) THEN MethodLoop(Tail(args), method)
    ELSE IF method /= <<>> THEN [fatal |-> TRUE, method |-> method]
    ELSE MethodLoop(Tail(args), Head(args))

\* The field's name with an ASCII lower-case first rune upper-cased.
Capitalize(name) ==
    IF \E i \in 1..Len(Lower) : Lower[i] = name[1]
    THEN <<Upper[CHOOSE i \in 1..Len(Lower) : Lower[i] = name[1]]>> \o Tail(name)
    ELSE name

MethodBase(f, picked) == IF picked = <<>> THEN Capitalize(f.name) ELSE picked

\* A printed line, with the function that printed it and the field it is for.
Line(kind, src, text) == [kind |-> kind, src |-> src, text |-> text]

printComment(src, recv, field, tag) ==
    Line("comment", src, "// " \o Text(recv) \o "." \o Text(field) \o ": " \o Text(tag))

printGetter(src, recv, method, typ, field) ==
    Line("getter", src,
         "func (x *" \o Text(recv) \o ") " \o Text(method) \o "() " \o Text(typ)
             \o " { return x." \o Text(field) \o " }")

printSetter(src, recv, method, typ, field) ==
    Line("setter", src,
         "func (x *" \o Text(recv) \o ") " \o Text(method) \o "(value " \o Text(typ)
             \o ") { x." \o Text(field) \o " = value }")

MethodName_Exported(arg, method) ==
    <<Upper[CHOOSE i \in 1..Len(Lower) : Lower[i] = arg[1] \/ Upper[i] = arg[1]]>>
        \o Tail(arg) \o method

MethodName(arg, method) == arg \o method

\* The loop over the arguments that prints one accessor for every marker.
RECURSIVE PrintLoop(_, _, _, _, _, _)
PrintLoop(args, src, recv, method, typ, field) ==
    IF args = <<>> THEN <<>>
    ELSE LET arg == Head(args)
             rest == PrintLoop(Tail(args), src, recv, method, typ, field)
         IN  IF arg \in {get, Get}
             THEN <<printGetter(src, recv, MethodName(arg, method), typ, field)>> \o rest
             ELSE IF arg \in {set, Set}
             THEN <<printSetter(src, recv, MethodName(arg, method), typ, field)>> \o rest
             ELSE rest

\* printAccessors on field number src: whether it was fatal, the lines it
\* printed and the registry it leaves.
printAccessors(f, src, names, counts) ==
    IF Skipped(f)
    THEN [fatal |-> FALSE, lines |-> <<>>, pkgNames |-> names, pkgNameCounts |-> counts]
    ELSE LET args == TagArgs(f)
             recv == Receiver(f)
             picked == MethodLoop(args, <<>>)
         IN  IF picked.fatal
             THEN [fatal |-> TRUE, lines |-> <<>>, pkgNames |-> names,
                   pkgNameCounts |-> counts]
             ELSE LET method == MethodBase(f, picked.method)
                      typ == TypeString(f.typ, names, counts)
                  IN  [fatal |-> FALSE,
                       lines |-> <<printComment(src, recv, f.name, TagText(f))>>
                                 \o PrintLoop(args, src, recv, method, typ.text, f.name),
                       pkgNames |-> typ.pkgNames,
                       pkgNameCounts |-> typ.pkgNameCounts]

(***************************************************************************)
(* generator.generate: the header                                          *)
(***************************************************************************)
appName == LocalPkg.name

\* One import statement, as the loop over g.pkgNames formats it.
ImportStmt(pkgPath, rename) ==
    <<"\t">> \o (IF rename = PathBase(pkgPath) THEN <<>> ELSE rename) \o <<" ">>
        \o Quote(pkgPath) \o <<"\n">>

IsExternal_Slash(pkgPath) == Contains(pkgPath, "/")

IsExternal(pkgPath) == Contains(pkgPath, ".")

\* The orders in which a range over a map of these keys may visit them.
Orders(keys) ==
    {q \in [1..Cardinality(keys) -> keys] : {q[i] : i \in DOMAIN q} = keys}

\* The statements of one group, in the order the map is visited.
RECURSIVE Collect(_, _, _)
Collect(order, names, external) ==
    IF order = <<>> THEN <<>>
    ELSE LET pkgPath == Head(order)
             rest == Collect(Tail(order), names, external)
         IN  IF IsExternal(pkgPath) = external
             THEN <<ImportStmt(pkgPath, names[pkgPath])>> \o rest
             ELSE rest

\* g.printf(stmt) of a statement ending in a newline: one line of the buffer.
\* (No statement holds a percent sign: import paths and identifiers cannot.)
PrintStmts(stmts) ==
    [i \in 1..Len(stmts) |-> Text(SubSeq(stmts[i], 1, Len(stmts[i]) - 1))]

\* The header buffer when the map is visited in the given order.
Header(names, order) ==
    LET stdImports == SortStrings(Collect(order, names, FALSE))
        extImports == SortStrings(Collect(order, names, TRUE))
    IN  <<"// Code generated by accessor; DO NOT EDIT.", "",
          "package " \o Text(appName), "import (">>
        \o PrintStmts(stdImports) \o <<"">> \o PrintStmts(extImports) \o <<")">>

(***************************************************************************)
(* The generator as a state machine.                                       *)
(***************************************************************************)
EmptyMap == <<>>
NoOutput == [header |-> <<>>, accessors |-> <<>>]

NewGenerator ==
    /\ idx = 1
    /\ pc = "scan"
    /\ accessors = <<>>
    /\ header = <<>>
    /\ pkgNames = EmptyMap
    /\ pkgNameCounts = EmptyMap
    /\ written = FALSE

EiIdle ==
    /\ xs = <<>>
    /\ dead = [e \in 1..NumEntities |-> FALSE]
    /\ old = <<>>
    /\ op = "init"

\* A package of up to MaxFields tagged fields of local and foreign types.
Init ==
    /\ fields \in SeqsUpTo(ImportFields, MaxFields)
    /\ NewGenerator
    /\ run = 1
    /\ prev = NoOutput
    /\ EiIdle

\* A package of one field, with any tag.
InitTag ==
    /\ fields \in {<<f>> : f \in TagFields}
    /\ NewGenerator
    /\ run = 1
    /\ prev = NoOutput
    /\ EiIdle

\* One iteration of the loops of generate: printAccessors on the next field.
PrintAccessors ==
    /\ pc = "scan"
    /\ idx <= Len(fields)
    /\ LET r == printAccessors(fields[idx], idx, pkgNames, pkgNameCounts)
       IN  /\ pc' = IF r.fatal THEN "fatal" ELSE "scan"
           /\ accessors' = accessors \o r.lines
           /\ pkgNames' = r.pkgNames
           /\ pkgNameCounts' = r.pkgNameCounts
    /\ idx' = idx + 1
    /\ UNCHANGED <<fields, header, written, run, prev, eiVars>>

\* The end of generate: the header, from the registry in map order.
GenerateHeader ==
    /\ pc = "scan"
    /\ idx > Len(fields)
    /\ \E order \in Orders(DOMAIN pkgNames) : header' = Header(pkgNames, order)
    /\ pc' = "generated"
    /\ UNCHANGED <<fields, idx, accessors, pkgNames, pkgNameCounts, written, run,
                   prev, eiVars>>

\* g.format and os.WriteFile: go/format accepts the text and the file is written.
WriteOutput ==
    /\ pc = "generated"
    /\ pc' = "done"
    /\ written' = TRUE
    /\ UNCHANGED <<fields, idx, accessors, header, pkgNames, pkgNameCounts, run,
                   prev, eiVars>>

\* g.format or os.WriteFile reports an error: log.Fatalf.
FormatFails ==
    /\ pc = "generated"
    /\ pc' = "fatal"
    /\ UNCHANGED <<fields, idx, accessors, header, pkgNames, pkgNameCounts, written,
                   run, prev, eiVars>>

\* The program is run again on the unchanged package, with a new generator.
Rerun ==
    /\ pc = "done"
    /\ run = 1
    /\ run' = 2
    /\ prev' = [header |-> header, accessors |-> accessors]
    /\ idx' = 1
    /\ pc' = "scan"
    /\ accessors' = <<>>
    /\ header' = <<>>
    /\ pkgNames' = EmptyMap
    /\ pkgNameCounts' = EmptyMap
    /\ written' = FALSE
    /\ UNCHANGED <<fields, eiVars>>

Next ==
    \/ PrintAccessors
    \/ GenerateHeader
    \/ WriteOutput
    \/ FormatFails
    \/ Rerun

Spec == Init /\ [][Next]_vars

SpecTag == InitTag /\ [][Next]_vars

(***************************************************************************)
(* Package ei: entities and Sweep.                                         *)
(***************************************************************************)
Entities == 1..NumEntities

\* Entity.Alive
Alive(e) == ~dead[e]

\* The loop of Sweep over the backing array: element i is read, and when alive
\* written at j; the result is the first j elements.
RECURSIVE SweepLoop_NoTruncate(_, _, _)
SweepLoop_NoTruncate(arr, i, j) ==
    IF i > Len(arr) THEN arr
    ELSE IF Alive(arr[i])
    THEN SweepLoop_NoTruncate([arr EXCEPT ![j + 1] = arr[i]], i + 1, j + 1)
    ELSE SweepLoop_NoTruncate(arr, i + 1, j)

RECURSIVE SweepLoop(_, _, _)
SweepLoop(arr, i, j) ==
    IF i > Len(arr) THEN SubSeq(arr, 1, j)
    ELSE IF Alive(arr[i])
    THEN SweepLoop([arr EXCEPT ![j + 1] = arr[i]], i + 1, j + 1)
    ELSE SweepLoop(arr, i + 1, j)

GenIdle ==
    /\ fields = <<>>
    /\ NewGenerator
    /\ run = 1
    /\ prev = NoOutput

\* A slice of up to MaxLen entities, any of them more than once, all alive.
InitSweep ==
    /\ xs \in SeqsUpTo(Entities, MaxLen)
    /\ dead = [e \in Entities |-> FALSE]
    /\ old = <<>>
    /\ op = "init"
    /\ GenIdle

\* Entity.Kill
Kill ==
    /\ \E e \in Entities : dead' = [dead EXCEPT ![e] = TRUE]
    /\ op' = "Kill"
    /\ UNCHANGED <<xs, old, genVars>>

\* Sweep(&xs)
Sweep ==
    /\ old' = xs
    /\ xs' = SweepLoop(xs, 1, 0)
    /\ op' = "Sweep"
    /\ UNCHANGED <<dead, genVars>>

NextSweep ==
    \/ Kill
    \/ Sweep

SpecSweep == InitSweep /\ [][NextSweep]_vars

(***************************************************************************)
(* Properties.                                                              *)
(***************************************************************************)
Generated == pc \in {"generated", "done"}

\* The one field of a package of SpecTag has been through printAccessors
\* and printed its comment.
Printed(f) == idx > 1 /\ pc /= "fatal" /\ ~Skipped(f)

NumLines(kind) ==
    Cardinality({i \in 1..Len(accessors) : accessors[i].kind = kind})

Texts(lines) == [i \in 1..Len(lines) |-> lines[i].text]

ForeignPkgs == {UtilA, UtilB, Util1, YamlV2}

TrimEach(args) == [i \in 1..Len(args) |-> TrimSpace(args[i])]

\* C1: no two distinct package paths of the import registry have the same
\* short name.
C1_UniqueShortNames ==
    \A p, q \in DOMAIN pkgNames : p /= q => pkgNames[p] /= pkgNames[q]

\* C2: a tag whose token list holds two or more tokens that are not markers
\* makes the run fatal, and no output file is written.
C2_TwoNamesAbort ==
    \A i \in 1..Len(fields) :
        ( /\ i < idx
          /\ ~Skipped(fields[i])
          /\ Cardinality({k \in 1..Len(TagArgs(fields[i])) :
                             ~IsMarker(TagArgs(fields[i])[k])}) >= 2 )
        => (pc = "fatal" /\ ~written)

UserName == StructField(User, FieldName, Widget, AccessorTag(Join(<<get, set>>)))

\* C3 as stated: for field Name of local type Widget in struct User tagged
\* get,set the body is the comment line and the methods GetName and SetName.
C3_ExportedNames ==
    (fields = <<UserName>> /\ idx > 1)
    => Texts(accessors) =
           <<"// User.Name: get,set",
             "func (x *User) GetName() Widget { return x.Name }",
             "func (x *User) SetName(value Widget) { x.Name = value }">>

\* C3 as amended: for field Name of local type Widget in struct User tagged
\* get,set the body is the comment line and the methods getName and setName,
\* each named by the marker as spelled in the tag followed by the base name.
C3_MarkerSpelledNames ==
    (fields = <<UserName>> /\ idx > 1)
    => Texts(accessors) =
           <<"// User.Name: get,set",
             "func (x *User) getName() Widget { return x.Name }",
             "func (x *User) setName(value Widget) { x.Name = value }">>

C3_Witness == fields = <<UserName>> /\ pc = "done" /\ Len(accessors) = 3

\* C4: every token is trimmed before it is classified, so a token that is a
\* marker once trimmed requests its accessor: a printed field has one getter
\* for each token that trims to get or Get and one setter for each token that
\* trims to set or Set.
C4_TokensTrimmed ==
    \A i \in 1..Len(fields) :
        (i = 1 /\ Len(fields) = 1 /\ Printed(fields[i]))
        => LET args == TrimEach(TagArgs(fields[i]))
           IN  /\ NumLines("getter") =
                      Cardinality({k \in 1..Len(args) : args[k] \in {get, Get}})
               /\ NumLines("setter") =
                      Cardinality({k \in 1..Len(args) : args[k] \in {set, Set}})

\* C5: a field with a non-empty accessor tag that is processed without a fatal
\* error prints exactly one comment line and then at most one getter and at
\* most one setter.
C5_AtMostOneEach ==
    \A i \in 1..Len(fields) :
        (i = 1 /\ Len(fields) = 1 /\ Printed(fields[i]))
        => /\ NumLines("comment") = 1
           /\ accessors[1].kind = "comment"
           /\ NumLines("getter") <= 1
           /\ NumLines("setter") <= 1

\* C6: a second run over the same field descriptors produces the header and
\* the body of the first run, whatever order the registry map is visited in.
C6_Deterministic ==
    (run = 2 /\ Generated)
    => (header = prev.header /\ accessors = prev.accessors)

C6_Witness ==
    /\ run = 2
    /\ Generated
    /\ \E p, q \in DOMAIN pkgNames : p /= q /\ IsExternal(p) = IsExternal(q)

\* The two spellings of a path's import line: without and with the alias.
Spellings(pkgPath) ==
    {<<"\t", " ">> \o Quote(pkgPath),
     <<"\t">> \o pkgNames[pkgPath] \o <<" ">> \o Quote(pkgPath)}

\* The lines of the header that import the path.
ImportLines(pkgPath) ==
    {i \in 5..(Len(header) - 1) : header[i] \in {Text(r) : r \in Spellings(pkgPath)}}

\* The blank lines between the opening and the closing line of the import block.
BlankLines == {i \in 5..(Len(header) - 1) : header[i] = ""}

\* C7: in the import block every registered path is on exactly one line, the
\* paths without a dot before the one blank line and the paths with a dot
\* after it, and the lines of each group are in lexical order.
C7_ImportBlock ==
    pc = "generated"
    => LET paths == DOMAIN pkgNames
           lines == [p \in paths |-> ImportLines(p)]
           line == [p \in paths |-> CHOOSE i \in lines[p] : TRUE]
           runes == [p \in paths |->
                        CHOOSE r \in Spellings(p) : Text(r) = header[line[p]]]
       IN  /\ header[4] = "import ("
           /\ header[Len(header)] = ")"
           /\ Len(header) = 6 + Cardinality(paths)
           /\ Cardinality(BlankLines) = 1
           /\ \A p \in paths : Cardinality(lines[p]) = 1
           /\ \A p \in paths, b \in BlankLines :
                  IF Contains(p, ".") THEN b < line[p] ELSE line[p] < b
           /\ \A p, q \in paths :
                  (Contains(p, ".") = Contains(q, ".") /\ line[p] < line[q])
                  => StrLess(runes[p], runes[q])

C7_Witness ==
    /\ pc = "generated"
    /\ Cardinality({p \in DOMAIN pkgNames : Contains(p, ".")}) >= 2
    /\ Cardinality({p \in DOMAIN pkgNames : ~Contains(p, ".")}) >= 2

\* C8: within a run a path that has a short name keeps it in every later
\* step, and a call of qualifier for such a path returns that name and
\* changes neither the path-to-name map nor the counters.
C8_WriteOncePerPath ==
    [][ /\ (run' = run)
            => \A p \in DOMAIN pkgNames :
                   p \in DOMAIN pkgNames' /\ pkgNames'[p] = pkgNames[p]
        /\ \A k \in ForeignPkgs :
               k.path \in DOMAIN pkgNames
               => qualifier(k, pkgNames, pkgNameCounts) =
                      [name |-> pkgNames[k.path], pkgNames |-> pkgNames,
                       pkgNameCounts |-> pkgNameCounts] ]_vars

C8_Witness ==
    /\ pc = "scan"
    /\ \E i, j \in 1..Len(fields) :
           /\ i < j
           /\ j < idx
           /\ (TypePkgs(fields[i].typ) \cap TypePkgs(fields[j].typ)) \ {LocalPkg} /= {}
    /\ Cardinality(DOMAIN pkgNames) >= 2

\* C9: after a pass that completes, every path of the import registry is
\* named by the type of the field of some printed getter or setter.
C9_NoUnusedImport ==
    Generated
    => \A p \in DOMAIN pkgNames :
           \E i \in 1..Len(accessors) :
               /\ accessors[i].kind \in {"getter", "setter"}
               /\ p \in {k.path : k \in TypePkgs(fields[accessors[i].src].typ)}

\* C10: after Sweep the slice is the alive elements of the original slice,
\* each position once and in the original order; its length is the number of
\* alive positions and no dead element is left.
C10_SweepKeepsAlive ==
    op = "Sweep"
    => /\ xs = SelectSeq(old, Alive)
       /\ Len(xs) = Cardinality({i \in 1..Len(old) : Alive(old[i])})
       /\ \A i \in 1..Len(xs) : Alive(xs[i])

C10_Witness ==
    /\ op = "Sweep"
    /\ Len(xs) >= 2
    /\ \E i, j, k \in 1..Len(old) :
           i < j /\ j < k /\ Alive(old[i]) /\ ~Alive(old[j]) /\ Alive(old[k])

====
